---- MODULE Spec2Model ----
(***************************************************************************)
(* A model of the NestJS CQRS schematics: the command and query            *)
(* generators, the module-file (aggregation-file) updater, the content     *)
(* patcher and the relative-path calculator.                                *)
(*                                                                         *)
(* Text is modelled as a sequence of tokens.  A token is a TLA+ string      *)
(* that stands for exactly those characters ("import", " ", "'", "Foo"):    *)
(* the text a sequence denotes is the concatenation of its tokens.  No      *)
(* token is a prefix of another one that can follow it in the inputs, so    *)
(* two different sequences never denote the same text and the JavaScript    *)
(* string operations (includes, replace, trim, endsWith, split, RegExp      *)
(* matching) are modelled token by token.                                   *)
(***************************************************************************)
EXTENDS Integers, Sequences, FiniteSets, TLC

VARIABLES
    tree,      \* the virtual file tree: the files in the directory listing's order
    last,      \* the last invocation: what it was, its arguments, how it ended
    runs,      \* number of invocations made so far
    texts,     \* patcher: the original text and the result of each call made on it
    patchIn,   \* patcher: the import line, the entry and the name
    pathIn,    \* path calculator: the source directory and the target file
    pathOut,   \* path calculator: the computed relative path
    names      \* option normalizer: the identifier and its successive canonical names

vars == <<tree, last, runs, texts, patchIn, pathIn, pathOut, names>>

-----------------------------------------------------------------------------
(* JavaScript string primitives, on token sequences *)

Whitespace == {" ", "\n"}
Quote == {"'", "\""}

Min(a, b) == IF a < b THEN a ELSE b
Max(a, b) == IF a > b THEN a ELSE b

\* s.startsWith(p, i-1): p occurs in s at (1-based) position i
OccursAt(s, p, i) ==
    /\ i >= 1
    /\ i + Len(p) - 1 <= Len(s)
    /\ \A k \in 1..Len(p) : s[i + k - 1] = p[k]

\* s.indexOf(p) + 1: the first position where p occurs, 0 when it does not
IndexOf(s, p) ==
    LET hits == {i \in 1..(Len(s) - Len(p) + 1) : OccursAt(s, p, i)}
    IN  IF hits = {} THEN 0 ELSE CHOOSE i \in hits : \A j \in hits : i <= j

\* s.includes(p)
Includes(s, p) == IndexOf(s, p) # 0

StartsWith(s, p) == OccursAt(s, p, 1)
EndsWith(s, p) == Len(p) <= Len(s) /\ OccursAt(s, p, Len(s) - Len(p) + 1)

\* s.trim()
Trim(s) ==
    LET keep == {i \in 1..Len(s) : s[i] \notin Whitespace}
    IN  IF keep = {} THEN <<>>
        ELSE SubSeq(s, CHOOSE i \in keep : \A j \in keep : i <= j,
                       CHOOSE i \in keep : \A j \in keep : i >= j)

\* GetSubstitution for a string pattern: in the replacement text of
\* String.prototype.replace "$$" is "$", "$&" the matched text, "$`" the text
\* before the match and "$'" the text after it; any other "$" is literal.
RECURSIVE GetSubstitution(_, _, _, _)
GetSubstitution(rep, matched, before, after) ==
    IF rep = <<>> THEN <<>>
    ELSE IF rep[1] = "$" /\ Len(rep) >= 2 /\ rep[2] \in {"$", "&", "`", "'"}
    THEN (CASE rep[2] = "$" -> <<"$">>
            [] rep[2] = "&" -> matched
            [] rep[2] = "`" -> before
            [] rep[2] = "'" -> after)
         \o GetSubstitution(SubSeq(rep, 3, Len(rep)), matched, before, after)
    ELSE <<rep[1]>> \o GetSubstitution(Tail(rep), matched, before, after)

\* s.replace(pattern, replacement) with a string pattern: the FIRST occurrence
ReplaceFirst(s, pattern, replacement) ==
    LET i == IndexOf(s, pattern)
    IN  IF i = 0 THEN s
        ELSE LET before == SubSeq(s, 1, i - 1)
                 after  == SubSeq(s, i + Len(pattern), Len(s))
             IN  before \o GetSubstitution(replacement, pattern, before, after) \o after

-----------------------------------------------------------------------------
(* strings.dasherize and strings.classify of @angular-devkit/core, on names  *)
(* made of lower-case words, capitalised words and separators               *)

LowerWords == {"foo", "create", "bar", "user", "get"}
UpperWords == {"Foo", "Create", "Bar", "User", "Get"}
Separators == {" ", "-", "_"}

Capitalize(w) ==
    CASE w = "foo" -> "Foo" [] w = "create" -> "Create" [] w = "bar" -> "Bar"
      [] w = "user" -> "User" [] w = "get" -> "Get"
      [] OTHER -> w
ToLowerCase(w) ==
    CASE w = "Foo" -> "foo" [] w = "Create" -> "create" [] w = "Bar" -> "bar"
      [] w = "User" -> "user" [] w = "Get" -> "get"
      [] OTHER -> w

\* a faulty decamelize, for comparison: only the first word boundary gets its
\* "_" and the case is kept
decamelize_Once(str) ==
    LET bounds == {i \in 1..(Len(str) - 1) :
                      str[i] \in LowerWords \cup UpperWords /\ str[i + 1] \in UpperWords}
        first == CHOOSE i \in bounds : \A j \in bounds : i <= j
    IN  IF bounds = {} THEN str
        ELSE SubSeq(str, 1, first) \o <<"_">> \o SubSeq(str, first + 1, Len(str))

\* decamelize: str.replace(/([a-z\d])([A-Z])/g, '$1_$2').toLowerCase()
RECURSIVE decamelize(_)
decamelize(str) ==
    IF str = <<>> THEN <<>>
    ELSE IF Len(str) >= 2 /\ str[1] \in LowerWords \cup UpperWords /\ str[2] \in UpperWords
    THEN <<ToLowerCase(str[1]), "_">> \o decamelize(Tail(str))
    ELSE <<ToLowerCase(str[1])>> \o decamelize(Tail(str))

\* dasherize: decamelize(str).replace(/[ _]/g, '-')
dasherize(str) ==
    LET d == decamelize(str)
    IN  [i \in 1..Len(d) |-> IF d[i] \in {" ", "_"} THEN "-" ELSE d[i]]

\* camelize, then capitalize: every run of separators is dropped and the word
\* after it capitalised; the first character is made upper case
RECURSIVE camelizeFrom(_, _)
camelizeFrom(str, afterSep) ==
    IF str = <<>> THEN <<>>
    ELSE IF str[1] \in Separators THEN camelizeFrom(Tail(str), TRUE)
    ELSE <<IF afterSep THEN Capitalize(str[1]) ELSE str[1]>>
         \o camelizeFrom(Tail(str), FALSE)

classify(str) ==
    LET c == camelizeFrom(str, FALSE)
    IN  IF c = <<>> THEN <<>> ELSE <<Capitalize(c[1])>> \o Tail(c)

\* `${strings.classify(name)}Handler`
handlerClassName(name) == classify(name) \o <<"Handler">>

-----------------------------------------------------------------------------
(* The import pattern  /import.*from\s+['"][^'"]+['"];/g *)

\* number of consecutive tokens of s from position i on that are in set S
RECURSIVE RunLength(_, _, _)
RunLength(s, i, S) ==
    IF i > Len(s) \/ s[i] \notin S THEN 0 ELSE 1 + RunLength(s, i + 1, S)

\* from\s+['"][^'"]+['"];  with "from" at position f: the position of the
\* closing ";" or 0.  \s+ must take the whole whitespace run (a quote follows)
\* and [^'"]+ everything up to the next quote, so the tail matches one way.
ImportTailEnd(s, f) ==
    LET w == RunLength(s, f + 1, Whitespace)
        q == f + w + 1
        m == RunLength(s, q + 1, {s[k] : k \in 1..Len(s)} \ Quote)
        c == q + m + 1
    IN  IF /\ f <= Len(s) /\ s[f] = "from"
           /\ w >= 1
           /\ q <= Len(s) /\ s[q] \in Quote
           /\ m >= 1
           /\ c + 1 <= Len(s) /\ s[c] \in Quote /\ s[c + 1] = ";"
        THEN c + 1 ELSE 0

\* The match that starts at position i: the position of its last token, or 0.
\* ".*" is greedy and does not cross a line break: the last "from" on the line
\* whose tail matches.
ImportMatchEnd(s, i) ==
    IF i > Len(s) \/ s[i] # "import" THEN 0
    ELSE LET lineLen == RunLength(s, i + 1, {s[k] : k \in 1..Len(s)} \ {"\n"})
             froms == {f \in (i + 1)..(i + lineLen) : ImportTailEnd(s, f) # 0}
         IN  IF froms = {} THEN 0
             ELSE ImportTailEnd(s, CHOOSE f \in froms : \A g \in froms : f >= g)

\* the matches of the pattern from position i on, left to right and not
\* overlapping: where each starts and ends
RECURSIVE ImportMatchSpans(_, _)
ImportMatchSpans(s, i) ==
    IF i > Len(s) THEN <<>>
    ELSE LET e == ImportMatchEnd(s, i)
         IN  IF e = 0 THEN ImportMatchSpans(s, i + 1)
             ELSE <<[start |-> i, end |-> e]>> \o ImportMatchSpans(s, e + 1)

\* content.match(importRegex): the matched texts
ImportMatches(s) ==
    LET spans == ImportMatchSpans(s, 1)
    IN  [k \in 1..Len(spans) |-> SubSeq(s, spans[k].start, spans[k].end)]

-----------------------------------------------------------------------------
(* content-manipulator.ts *)

addImportStatement(text, importStatement) ==
    LET imports == ImportMatches(text)
    IN  IF Len(imports) > 0
        THEN LET lastImport == imports[Len(imports)]
             IN  ReplaceFirst(text, lastImport,
                              lastImport \o <<"\n">> \o importStatement)
        ELSE importStatement \o <<"\n">> \o text

\* The first match of /providers:\s*\[([\s\S]*?)\]/m : where it starts, where
\* its "[" and its "]" are; start = 0 when nothing matches.  The lazy group
\* ends at the first "]" after the "[".
ProvidersMatch(text) ==
    LET open(i)  == i + 2 + RunLength(text, i + 2, Whitespace)
        closes(i) == {c \in (open(i) + 1)..Len(text) : text[c] = "]"}
        starts == {i \in 1..Len(text) :
                     /\ text[i] = "providers"
                     /\ i + 1 <= Len(text) /\ text[i + 1] = ":"
                     /\ open(i) <= Len(text) /\ text[open(i)] = "["
                     /\ closes(i) # {}}
    IN  IF starts = {} THEN [start |-> 0, open |-> 0, close |-> 0]
        ELSE LET i == CHOOSE x \in starts : \A y \in starts : x <= y
             IN  [start |-> i, open |-> open(i),
                  close |-> CHOOSE c \in closes(i) : \A d \in closes(i) : c <= d]

\* a faulty separator, for comparison: a comma in every case
ProviderSeparator_Always(existingProviders) == <<",">>

\* existingProviders && !existingProviders.endsWith(",") ? "," : ""
ProviderSeparator(existingProviders) ==
    IF existingProviders # <<>> /\ ~EndsWith(existingProviders, <<",">>)
    THEN <<",">> ELSE <<>>

\* the callback of addProviderEntry's replace: the text that replaces the match
ProviderReplacement(match, providers, providerEntry, name) ==
    IF Includes(providers, handlerClassName(name)) THEN match
    ELSE LET existingProviders == Trim(providers)
             separator == ProviderSeparator(existingProviders)
         IN  <<"providers", ":", " ", "[">> \o existingProviders \o separator
             \o <<"\n">> \o providerEntry \o <<"\n", " ", " ", "]">>

addProviderEntry(text, providerEntry, name) ==
    LET m == ProvidersMatch(text)
    IN  IF m.start = 0 THEN text
        ELSE SubSeq(text, 1, m.start - 1)
             \o ProviderReplacement(SubSeq(text, m.start, m.close),
                                    SubSeq(text, m.open + 1, m.close - 1),
                                    providerEntry, name)
             \o SubSeq(text, m.close + 1, Len(text))

-----------------------------------------------------------------------------
(* path-utilities.ts.  A path is a text whose "/" tokens separate segments. *)

\* str.split("/")
RECURSIVE Split(_)
Split(str) ==
    LET i == IndexOf(str, <<"/">>)
    IN  IF i = 0 THEN <<str>>
        ELSE <<SubSeq(str, 1, i - 1)>> \o Split(SubSeq(str, i + 1, Len(str)))

\* parts.join("/")
RECURSIVE Join(_)
Join(parts) ==
    IF parts = <<>> THEN <<>>
    ELSE IF Len(parts) = 1 THEN parts[1]
    ELSE parts[1] \o <<"/">> \o Join(Tail(parts))

\* .filter((part) => part !== "")
NonEmptyParts(parts) == SelectSeq(parts, LAMBDA part : part # <<>>)

\* path.replace(/\/$/, "")
StripTrailingSlash(path) ==
    IF EndsWith(path, <<"/">>) THEN SubSeq(path, 1, Len(path) - 1) ELSE path

\* a faulty parent, for comparison: no level is dropped
getParentPath_Same(path, levels) == path

getParentPath(path, levels) ==
    LET pathParts == NonEmptyParts(Split(StripTrailingSlash(path)))
        kept == SubSeq(pathParts, 1, Max(Len(pathParts) - levels, 0))
    IN  IF Len(kept) > 0 THEN Join(kept) \o <<"/">> ELSE <<>>

\* a faulty count, for comparison: no common prefix is ever found
CommonLength_None(fromParts, toParts) == 0

\* the length of the longest common prefix of two segment lists
RECURSIVE CommonLength(_, _)
CommonLength(fromParts, toParts) ==
    IF fromParts # <<>> /\ toParts # <<>> /\ fromParts[1] = toParts[1]
    THEN 1 + CommonLength(Tail(fromParts), Tail(toParts))
    ELSE 0

\* a faulty count, for comparison: one level too few
UpLevels_OneLess(fromParts, commonLength) == Len(fromParts) - commonLength - 1

\* const upLevels = fromParts.length - commonLength
UpLevels(fromParts, commonLength) == Len(fromParts) - commonLength

\* a faulty prefix, for comparison: "./" in front of every result
RelativePrefix_Always(result) == <<".", "/">> \o result

\* result.startsWith("../") ? result : `./${result}`
RelativePrefix(result) ==
    IF StartsWith(result, <<"..", "/">>) THEN result ELSE <<".", "/">> \o result

getRelativePath(from, to) ==
    LET fromParts == NonEmptyParts(Split(StripTrailingSlash(from)))
        toParts == NonEmptyParts(Split(to))
        commonLength == CommonLength(fromParts, toParts)
        upLevels == UpLevels(fromParts, commonLength)
        downPath == SubSeq(toParts, commonLength + 1, Len(toParts))
        relativeParts == [i \in 1..upLevels |-> <<"..">>] \o downPath
    IN  RelativePrefix(Join(relativeParts))

\* modulePath.substring(0, modulePath.lastIndexOf("/") + 1)
DirectoryOf(path) ==
    LET slashes == {i \in 1..Len(path) : path[i] = "/"}
    IN  IF slashes = {} THEN <<>>
        ELSE SubSeq(path, 1, CHOOSE i \in slashes : \A j \in slashes : i >= j)

\* a faulty handler path, for comparison: the handlers/ directory is left out
calculateRelativeImportPath_NoHandlers(modulePath, handlerBasePath, name, flat) ==
    getRelativePath(DirectoryOf(modulePath), handlerBasePath \o name \o <<".handler">>)

calculateRelativeImportPath(modulePath, handlerBasePath, name, flat) ==
    LET moduleDir == DirectoryOf(modulePath)
        handlerPath == IF flat
                       THEN handlerBasePath \o name \o <<".handler">>
                       ELSE handlerBasePath \o <<"handlers", "/">> \o name \o <<".handler">>
    IN  getRelativePath(moduleDir, handlerPath)

-----------------------------------------------------------------------------
(* The virtual file tree (Tree of @angular-devkit/schematics), as the code   *)
(* uses it.  The tree is the sequence of its files in the directory          *)
(* listing's order; a file's path is kept as its list of segments.  An       *)
(* invocation carries a context: the tree, the log of the tree operations    *)
(* it made, and the pending exception (err, outermost message first; <<>>    *)
(* when nothing was thrown).  A step of a context with a pending exception   *)
(* does nothing: the code after a throw is skipped.                          *)

Segments(path) == NonEmptyParts(Split(path))

FileIndex(t, segs) ==
    LET hits == {i \in 1..Len(t) : t[i].path = segs}
    IN  IF hits = {} THEN 0 ELSE CHOOSE i \in hits : TRUE

Exists(t, path) == FileIndex(t, Segments(path)) # 0

\* tree.read(path)?.toString("utf-8"): the text, or Null when there is no file
Null == <<"<null>">>
ReadText(t, path) ==
    LET i == FileIndex(t, Segments(path))
    IN  IF i = 0 THEN Null ELSE t[i].text

Logged(ctx, op, path) == Append(ctx.log, [op |-> op, path |-> Segments(path)])

Throw(ctx, message) == [ctx EXCEPT !.err = <<message>>]

\* a faulty create, for comparison: a file that is there is written over
TreeCreate_Overwrite(ctx, path, text) ==
    IF ctx.err # <<>> THEN ctx
    ELSE IF Exists(ctx.tree, path)
    THEN [ctx EXCEPT !.tree[FileIndex(ctx.tree, Segments(path))].text = text,
                     !.log = Logged(ctx, "create", path)]
    ELSE [ctx EXCEPT !.tree = Append(ctx.tree, [path |-> Segments(path), text |-> text]),
                     !.log = Logged(ctx, "create", path)]

\* tree.create(path, text): throws when the file exists already
TreeCreate(ctx, path, text) ==
    IF ctx.err # <<>> THEN ctx
    ELSE IF Exists(ctx.tree, path)
    THEN [ctx EXCEPT !.err = <<"Path already exists">>,
                     !.log = Logged(ctx, "create", path)]
    ELSE [ctx EXCEPT !.tree = Append(ctx.tree, [path |-> Segments(path), text |-> text]),
                     !.log = Logged(ctx, "create", path)]

\* tree.overwrite(path, text): throws when there is no such file
TreeOverwrite(ctx, path, text) ==
    IF ctx.err # <<>> THEN ctx
    ELSE IF ~Exists(ctx.tree, path)
    THEN [ctx EXCEPT !.err = <<"Path does not exist">>,
                     !.log = Logged(ctx, "overwrite", path)]
    ELSE [ctx EXCEPT !.tree[FileIndex(ctx.tree, Segments(path))].text = text,
                     !.log = Logged(ctx, "overwrite", path)]

\* a faulty listing, for comparison: the files of the directory in reverse order
Subfiles_Reversed(t, path) ==
    LET inDir == SelectSeq(t, LAMBDA f :
                     SubSeq(f.path, 1, Len(f.path) - 1) = Segments(path))
    IN  [i \in 1..Len(inDir) |->
            inDir[Len(inDir) + 1 - i].path[Len(inDir[Len(inDir) + 1 - i].path)]]

\* tree.getDir(path).subfiles: the names of the files directly in the directory
Subfiles(t, path) ==
    LET inDir == SelectSeq(t, LAMBDA f :
                     SubSeq(f.path, 1, Len(f.path) - 1) = Segments(path))
    IN  [i \in 1..Len(inDir) |-> inDir[i].path[Len(inDir[i].path)]]

-----------------------------------------------------------------------------
(* option-normalizer.ts / helpers/index.ts: normalizeOptions *)

DEFAULT_PATH == <<"src">>

\* faulty options, for comparison: skipImport is never taken over
normalizeOptions_NeverSkips(options) ==
    LET path == IF options.path # <<>> THEN <<"src", "/">> \o options.path
                ELSE DEFAULT_PATH
    IN  [name |-> dasherize(options.name),
         normalizedPath |-> IF EndsWith(path, <<"/">>) THEN path ELSE path \o <<"/">>,
         skipImport |-> FALSE,
         flat |-> options.flat]

normalizeOptions(options) ==
    LET path == IF options.path # <<>> THEN <<"src", "/">> \o options.path
                ELSE DEFAULT_PATH
    IN  [name |-> dasherize(options.name),
         normalizedPath |-> IF EndsWith(path, <<"/">>) THEN path ELSE path \o <<"/">>,
         skipImport |-> options.skipImport,
         flat |-> options.flat]

-----------------------------------------------------------------------------
(* module-updater.ts and helpers/index.ts: the module-file update *)

\* a faulty locator, for comparison: app.module.ts is taken to be there
findModuleFile_Assumed(t, currentPath) ==
    getParentPath(currentPath, 1) \o <<"app", ".module.ts">>

\* a faulty locator, for comparison: the last .module.ts file is taken
findModuleFile_Last(t, currentPath) ==
    LET parentPath == getParentPath(currentPath, 1)
        moduleFiles == SelectSeq(Subfiles(t, parentPath),
                                 LAMBDA file : EndsWith(file, <<".module.ts">>))
    IN  IF Len(moduleFiles) = 0 THEN Null
        ELSE parentPath \o moduleFiles[Len(moduleFiles)]

\* the path of the first .module.ts file of the parent directory, or Null
findModuleFile(t, currentPath) ==
    LET parentPath == getParentPath(currentPath, 1)
        moduleFiles == SelectSeq(Subfiles(t, parentPath),
                                 LAMBDA file : EndsWith(file, <<".module.ts">>))
    IN  IF Len(moduleFiles) = 0 THEN Null ELSE parentPath \o moduleFiles[1]

\* `import { ${strings.classify(name)}Handler } from '${relativeImportPath}';`
ImportStatement(name, relativeImportPath) ==
    <<"import", " ", "{", " ">> \o handlerClassName(name)
    \o <<" ", "}", " ", "from", " ", "'">> \o relativeImportPath \o <<"'", ";">>

\* `    ${strings.classify(name)}Handler,`
ProviderEntry(name) == <<" ", " ", " ", " ">> \o handlerClassName(name) \o <<",">>

\* /providers\s*:\s*\[/.test(text)
HasProvidersArray(text) ==
    \E i \in 1..Len(text) :
        /\ text[i] = "providers"
        /\ LET c == i + 1 + RunLength(text, i + 1, Whitespace)
               b == c + 1 + RunLength(text, c + 1, Whitespace)
           IN  /\ c <= Len(text) /\ text[c] = ":"
               /\ b <= Len(text) /\ text[b] = "["

\* the catch of updateModuleFile: `Failed to update module file: ${message}`
\* a faulty test, for comparison: only a missing file counts as unreadable
Unreadable_NullOnly(moduleContent) == moduleContent = Null

\* if (!moduleContent): no file to read, or a file with nothing in it
Unreadable(moduleContent) == moduleContent = Null \/ moduleContent = <<>>

\* a faulty catch, for comparison: the error of the update is dropped
WrapUpdateError_Dropped(ctx) == [ctx EXCEPT !.err = <<>>]

WrapUpdateError(ctx) ==
    IF ctx.err = <<>> THEN ctx
    ELSE [ctx EXCEPT !.err = <<"Failed to update module file">> \o ctx.err]

\* a faulty test, for comparison: nothing is ever found registered
AlreadyInModule_Never(moduleContent, importStatement, name) == FALSE

\* module-updater.ts: moduleContent.includes(importStatement) ||
\*                    moduleContent.includes(providerEntry)
AlreadyInModule(moduleContent, importStatement, name) ==
    \/ Includes(moduleContent, importStatement)
    \/ Includes(moduleContent, ProviderEntry(name))

\* module-updater.ts: updateModuleFile
updateModuleFile(ctx0, name, normalizedPath, flat) ==
    LET ctx == [ctx0 EXCEPT
                   !.log = Logged(ctx0, "getDir", getParentPath(normalizedPath, 1))]
        modulePath == findModuleFile(ctx.tree, normalizedPath)
        read == [ctx EXCEPT !.log = Logged(ctx, "read", modulePath)]
        moduleContent == ReadText(ctx.tree, modulePath)
        importStatement == ImportStatement(name,
            calculateRelativeImportPath(modulePath, normalizedPath, name, flat))
        updatedImports == addImportStatement(moduleContent, importStatement)
    IN  IF ctx0.err # <<>> THEN ctx0
        ELSE IF modulePath = Null THEN ctx
        ELSE WrapUpdateError(
            IF Unreadable(moduleContent)
            THEN Throw(read, "Could not read module file")
            ELSE IF AlreadyInModule(moduleContent, importStatement, name) THEN read
            ELSE IF ~HasProvidersArray(updatedImports)
            THEN Throw(read, "No providers array found")
            ELSE TreeOverwrite(read, modulePath,
                     addProviderEntry(updatedImports, ProviderEntry(name), name)))

\* a faulty test, for comparison: only the import statement is looked for
helpers_AlreadyInModule_ImportOnly(moduleContent, importStatement, name) ==
    Includes(moduleContent, importStatement)

\* helpers/index.ts: moduleContent.includes(importStatement) ||
\*                   moduleContent.includes(`${strings.classify(name)}Handler`)
helpers_AlreadyInModule(moduleContent, importStatement, name) ==
    \/ Includes(moduleContent, importStatement)
    \/ Includes(moduleContent, handlerClassName(name))

\* helpers/index.ts: updateModuleFile (command.ts holds a verbatim copy)
helpers_updateModuleFile(ctx0, name, normalizedPath, flat) ==
    LET ctx == [ctx0 EXCEPT
                   !.log = Logged(ctx0, "getDir", getParentPath(normalizedPath, 1))]
        modulePath == findModuleFile(ctx.tree, normalizedPath)
        read == [ctx EXCEPT !.log = Logged(ctx, "read", modulePath)]
        moduleContent == ReadText(ctx.tree, modulePath)
        importStatement == ImportStatement(name,
            calculateRelativeImportPath(modulePath, normalizedPath, name, flat))
        updatedImports == addImportStatement(moduleContent, importStatement)
    IN  IF ctx0.err # <<>> THEN ctx0
        ELSE IF modulePath = Null THEN ctx
        ELSE WrapUpdateError(
            IF Unreadable(moduleContent)
            THEN Throw(read, "Could not read module file")
            ELSE IF helpers_AlreadyInModule(moduleContent, importStatement, name) THEN read
            ELSE TreeOverwrite(read, modulePath,
                     addProviderEntry(updatedImports, ProviderEntry(name), name)))

-----------------------------------------------------------------------------
(* template.ts and the templates, cut down to the tokens that matter: the    *)
(* class names and the handler's import of the command/query class           *)

\* strings.camelize
camelize(str) ==
    LET c == camelizeFrom(str, FALSE)
    IN  IF c = <<>> THEN <<>> ELSE <<ToLowerCase(c[1])>> \o Tail(c)

\* processTemplate: /<%= (\w+)\((\w+)\) %>/g, unrecognised tokens stay
RECURSIVE processTemplate(_, _)
processTemplate(template, name) ==
    IF template = <<>> THEN <<>>
    ELSE (CASE template[1] = "<%= classify(name) %>" -> classify(name)
            [] template[1] = "<%= dasherize(name) %>" -> dasherize(name)
            [] template[1] = "<%= camelize(name) %>" -> camelize(name)
            [] OTHER -> <<template[1]>>)
         \o processTemplate(Tail(template), name)

KindSuffix(kind) == IF kind = "query" THEN ".query" ELSE ".command"
KindClass(kind) == IF kind = "query" THEN "Query" ELSE "Command"

\* TEMPLATES.QUERY / TEMPLATES.COMMAND
ClassTemplate(kind) ==
    <<"export", " ", "class", " ", "<%= classify(name) %>", KindClass(kind)>>

\* TEMPLATES.HANDLER
HandlerTemplate(kind) ==
    <<"import", " ", "{", " ", "<%= classify(name) %>", KindClass(kind), " ", "}",
      " ", "from", " ", "'", "<%= importPath %>", "'", ";", "\n",
      "export", " ", "class", " ", "<%= classify(name) %>", "Handler">>

-----------------------------------------------------------------------------
(* query.ts and command.ts: the generators *)

\* a faulty import path, for comparison: the flat one whatever the flag
HandlerImportPath_Flat(kind, name, flat) == <<".", "/">> \o name \o <<KindSuffix(kind)>>

\* flat ? `./${name}.query` : `../impl/${name}.query`
HandlerImportPath(kind, name, flat) ==
    IF flat THEN <<".", "/">> \o name \o <<KindSuffix(kind)>>
    ELSE <<"..", "/", "impl", "/">> \o name \o <<KindSuffix(kind)>>

\* a faulty order, for comparison: the handler file is created first
createFiles_HandlerFirst(ctx, kind, name, normalizedPath, flat, classContent, handlerContent) ==
    LET classPath == IF flat THEN normalizedPath ELSE normalizedPath \o <<"impl", "/">>
        handlerPath == IF flat THEN normalizedPath
                       ELSE normalizedPath \o <<"handlers", "/">>
    IN  TreeCreate(TreeCreate(ctx, handlerPath \o name \o <<".handler", ".ts">>,
                              handlerContent),
                   classPath \o name \o <<KindSuffix(kind), ".ts">>, classContent)

\* a faulty layout, for comparison: the flat layout whatever the flag
createFiles_Flat(ctx, kind, name, normalizedPath, flat, classContent, handlerContent) ==
    TreeCreate(TreeCreate(ctx, normalizedPath \o name \o <<KindSuffix(kind), ".ts">>,
                          classContent),
               normalizedPath \o name \o <<".handler", ".ts">>, handlerContent)

\* createQueryFiles / createCommandFiles
createFiles(ctx, kind, name, normalizedPath, flat, classContent, handlerContent) ==
    LET classPath == IF flat THEN normalizedPath ELSE normalizedPath \o <<"impl", "/">>
        handlerPath == IF flat THEN normalizedPath
                       ELSE normalizedPath \o <<"handlers", "/">>
        classFilePath == classPath \o name \o <<KindSuffix(kind), ".ts">>
        handlerFilePath == handlerPath \o name \o <<".handler", ".ts">>
    IN  TreeCreate(TreeCreate(ctx, classFilePath, classContent),
                   handlerFilePath, handlerContent)

\* a faulty validation, for comparison: every name is accepted
NameMissing_Never(options) == FALSE

\* if (!_options.name)
NameMissing(options) == options.name = <<>>

\* the catch of the rule: `Failed to generate ${kind}: ${error}`
WrapGenerateError(ctx, kind) ==
    IF ctx.err = <<>> THEN ctx
    ELSE [ctx EXCEPT !.err =
            <<IF kind = "query" THEN "Failed to generate query"
              ELSE "Failed to generate command">> \o ctx.err]

\* the rule returned by query(_options) / command(_options), applied to a tree
generate(ctx0, kind, rawOptions) ==
    LET options == normalizeOptions(rawOptions)
        name == options.name
        classContent == processTemplate(ClassTemplate(kind), name)
        handlerTemplate == ReplaceFirst(HandlerTemplate(kind), <<"<%= importPath %>">>,
                                        HandlerImportPath(kind, name, options.flat))
        handlerContent == processTemplate(handlerTemplate, name)
        created == createFiles(ctx0, kind, name, options.normalizedPath, options.flat,
                               classContent, handlerContent)
    IN  WrapGenerateError(
            IF NameMissing(rawOptions)
            THEN Throw(ctx0, IF kind = "query" THEN "Query name is required"
                             ELSE "Command name is required")
            ELSE IF options.skipImport THEN created
            ELSE helpers_updateModuleFile(created, name, options.normalizedPath,
                                          options.flat),
            kind)

query(ctx0, rawOptions) == generate(ctx0, "query", rawOptions)
command(ctx0, rawOptions) == generate(ctx0, "command", rawOptions)

-----------------------------------------------------------------------------
(* The inputs: module-file texts built from fragments *)

MaxFragments == 2

OtherImport == <<"import", " ", "{", " ", "Bar", " ", "}", " ", "from", " ", "'",
                 ".", "/", "bar", "'", ";", "\n">>
DollarImport == <<"import", " ", "{", " ", "$", "$", " ", "}", " ", "from", " ", "\"",
                  "bar", "\"", ";", "\n">>
\* the import line the update of name foo under src/users/ (structured) adds
FooImport == ImportStatement(<<"foo">>,
                 <<".", "/", "users", "/", "handlers", "/", "foo", ".handler">>)
                 \o <<"\n">>
EmptyProviders == <<"providers", ":", " ", "[", "]", "\n">>
BareProviders == <<"providers", ":", " ", "[", "Bar", "Handler", "]", "\n">>
CommaProviders == <<"providers", ":", " ", "[", "\n", " ", " ", " ", " ",
                    "Bar", "Handler", ",", "\n", " ", " ", "]", "\n">>
FooProviders == <<"providers", ":", " ", "[", "Foo", "Handler", "]", "\n">>
FooEntryProviders == <<"providers", ":", "[", "\n">> \o ProviderEntry(<<"foo">>)
                     \o <<"\n", "]", "\n">>
CreateFooProviders == <<"providers", ":", " ", "[", "Create", "Foo", "Handler", ",",
                        "]", "\n">>
SpacedProviders == <<"providers", " ", ":", " ", "[", "Bar", "Handler", "]", "\n">>
Controllers == <<"controllers", ":", " ", "[", "Bar", "Controller", "]", "\n">>
OpenProviders == <<"//", " ", "providers", ":", " ", "[", "\n">>
BlankProviders == <<"providers", ":", " ", "[", "\n", " ", " ", "]", "\n">>

Fragments ==
    {OtherImport, FooImport, EmptyProviders, BareProviders,
     CommaProviders, FooProviders, FooEntryProviders, CreateFooProviders,
     SpacedProviders, Controllers, OpenProviders, BlankProviders}

RECURSIVE Concat(_)
Concat(seqs) == IF seqs = <<>> THEN <<>> ELSE seqs[1] \o Concat(Tail(seqs))

\* every text made of at most n of the fragments F
Texts(F, n) == {Concat(fs) : fs \in UNION {[1..k -> F] : k \in 0..n}}

-----------------------------------------------------------------------------
(* The generators and the module-file update on a file tree *)

MaxRuns == 2

File(path, text) == [path |-> Segments(path), text |-> text]

SrcModulePath == <<"src", "/", "app", ".module.ts">>
RootModulePath == <<"app", ".module.ts">>
OtherModulePath == <<"src", "/", "core", ".module.ts">>

NoArgs == [name |-> <<>>, path |-> <<>>, skipImport |-> FALSE, flat |-> FALSE]
NoCall == [op |-> "none", args |-> NoArgs, changed |-> FALSE]
Idle == [op |-> "none", args |-> NoArgs, err |-> <<>>, log |-> <<>>,
         before |-> <<>>, prev |-> NoCall]

NewContext == [tree |-> tree, log |-> <<>>, err |-> <<>>]

\* the invocation op(args) has ended in context ctx
Ended(op, args, ctx) ==
    /\ tree' = ctx.tree
    /\ last' = [op |-> op, args |-> args, err |-> ctx.err, log |-> ctx.log,
                before |-> tree,
                prev |-> [op |-> last.op, args |-> last.args,
                          changed |-> last.op # "none" /\ last.before # tree]]
    /\ runs' = runs + 1
    /\ UNCHANGED <<texts, patchIn, pathIn, pathOut, names>>

RawNames == {<<>>, <<"create", " ", "Foo">>}
RawPaths == {<<>>, <<"users">>}
\* the invocations the documentation shows: `create user` with the defaults,
\* `gen:cmd create-user modules/features/users`, `gen:query get-user ...`
UsersPath == <<"modules", "/", "features", "/", "users">>
ExampleOptions ==
    {[name |-> <<"create", " ", "user">>, path |-> <<>>,
      skipImport |-> FALSE, flat |-> FALSE],
     [name |-> <<"create", "-", "user">>, path |-> UsersPath,
      skipImport |-> FALSE, flat |-> FALSE],
     [name |-> <<"get", "-", "user">>, path |-> UsersPath,
      skipImport |-> FALSE, flat |-> FALSE]}
\* the name is looked at first: without one the other options play no part,
\* and the flags are left at their defaults
RawOptions ==
    [name : RawNames \ {<<>>}, path : RawPaths, skipImport : BOOLEAN, flat : BOOLEAN]
        \cup [name : {<<>>}, path : RawPaths, skipImport : {FALSE}, flat : {FALSE}]
        \cup ExampleOptions

GeneratorTrees ==
    {<<>>,
     <<File(SrcModulePath, OtherImport \o CommaProviders)>>,
     <<File(SrcModulePath, OtherImport \o Controllers)>>,
     <<File(SrcModulePath, <<>>), File(RootModulePath, BareProviders)>>,
     <<File(SrcModulePath, EmptyProviders), File(OtherModulePath, BareProviders),
       File(RootModulePath, OtherImport \o CreateFooProviders)>>}

PatcherIdle == texts = <<>> /\ patchIn = <<>>
PathIdle == pathIn = <<>> /\ pathOut = <<>>
NameIdle == names = <<>>

Init ==
    /\ tree \in GeneratorTrees
    /\ last = Idle
    /\ runs = 0
    /\ PatcherIdle /\ PathIdle /\ NameIdle

Query ==
    /\ runs < MaxRuns
    /\ \E o \in RawOptions : Ended("query", o, query(NewContext, o))

Command ==
    /\ runs < MaxRuns
    /\ \E o \in RawOptions : Ended("command", o, command(NewContext, o))

Next == Query \/ Command

Spec == Init /\ [][Next]_vars

-----------------------------------------------------------------------------
(* The module-file update alone, on a tree that holds one module file *)

UpdateNames == {<<"foo">>}
UpdateArgs == [name : UpdateNames, path : {<<"src", "/", "users", "/">>},
               skipImport : {FALSE}, flat : BOOLEAN]

InitUpdate ==
    /\ tree \in {<<File(SrcModulePath, t)>> : t \in Texts(Fragments \cup {DollarImport}, MaxFragments)}
    /\ last = Idle
    /\ runs = 0
    /\ PatcherIdle /\ PathIdle /\ NameIdle

\* module-updater.ts
UpdateModuleFile ==
    /\ runs < MaxRuns
    /\ \E a \in UpdateArgs :
          Ended("updateModuleFile", a,
                updateModuleFile(NewContext, a.name, a.path, a.flat))

\* helpers/index.ts
HelpersUpdateModuleFile ==
    /\ runs < MaxRuns
    /\ \E a \in UpdateArgs :
          Ended("helpers_updateModuleFile", a,
                helpers_updateModuleFile(NewContext, a.name, a.path, a.flat))

NextUpdate == UpdateModuleFile \/ HelpersUpdateModuleFile

SpecUpdate == InitUpdate /\ [][NextUpdate]_vars

-----------------------------------------------------------------------------
(* The content patcher alone: addImportStatement and addProviderEntry called *)
(* in any order on a text, each call on the result of the one before         *)

MaxCalls == 4

PatchInputs ==
    {[name |-> <<"foo">>,
      importStatement |-> ImportStatement(<<"foo">>, rel),
      providerEntry |-> ProviderEntry(<<"foo">>)] :
        rel \in {<<".", "/", "users", "/", "handlers", "/", "foo", ".handler">>,
                 <<".", "/", "users", "/", "foo", ".handler">>}}

GeneratorIdle == tree = <<>> /\ last = Idle /\ runs = 0

InitPatch ==
    /\ texts \in {<<[op |-> "input", text |-> t]>> : t \in Texts(Fragments, MaxFragments)}
    /\ patchIn \in PatchInputs
    /\ GeneratorIdle /\ PathIdle /\ NameIdle

Current == texts[Len(texts)].text

AddImportStatement ==
    /\ Len(texts) <= MaxCalls
    /\ texts' = Append(texts,
                   [op |-> "addImportStatement",
                    text |-> addImportStatement(Current, patchIn.importStatement)])
    /\ UNCHANGED <<tree, last, runs, patchIn, pathIn, pathOut, names>>

AddProviderEntry ==
    /\ Len(texts) <= MaxCalls
    /\ texts' = Append(texts,
                   [op |-> "addProviderEntry",
                    text |-> addProviderEntry(Current, patchIn.providerEntry,
                                              patchIn.name)])
    /\ UNCHANGED <<tree, last, runs, patchIn, pathIn, pathOut, names>>

NextPatch == AddImportStatement \/ AddProviderEntry

SpecPatch == InitPatch /\ [][NextPatch]_vars

-----------------------------------------------------------------------------
(* The relative-path calculator alone, on paths whose segments are names *)

MaxPathLength == 3

\* "a" and "b" are ordinary names; ".." is the parent segment a caller may pass
PathTokens == {"/", "a", "b", ".."}
Paths == UNION {[1..n -> PathTokens] : n \in 0..MaxPathLength}

\* a module directory and a handler path two levels apart
PathExamples ==
    {[from |-> <<"a", "/", "b", "/">>, to |-> <<"a", "/", "c", "/", "d">>]}

InitPath ==
    /\ pathIn \in [from : Paths, to : Paths] \cup PathExamples
    /\ pathOut = Null
    /\ GeneratorIdle /\ PatcherIdle /\ NameIdle

GetRelativePath ==
    /\ pathOut = Null
    /\ pathOut' = getRelativePath(pathIn.from, pathIn.to)
    /\ UNCHANGED <<tree, last, runs, texts, patchIn, pathIn, names>>

NextPath == GetRelativePath

SpecPath == InitPath /\ [][NextPath]_vars

-----------------------------------------------------------------------------
(* The generators in the sibling directories users/commands and users/queries *)
(* of one module file, src/users/users.module.ts                              *)

UsersModulePath == <<"src", "/", "users", "/", "users", ".module.ts">>

SiblingTrees ==
    {<<File(UsersModulePath, OtherImport \o EmptyProviders)>>,
     <<File(UsersModulePath, CommaProviders)>>,
     <<File(UsersModulePath, OtherImport \o Controllers)>>}

SiblingOptions ==
    [name : {<<"foo">>},
     path : {<<"users", "/", "commands">>, <<"users", "/", "queries">>},
     skipImport : {FALSE}, flat : BOOLEAN]

InitSiblings ==
    /\ tree \in SiblingTrees
    /\ last = Idle
    /\ runs = 0
    /\ PatcherIdle /\ PathIdle /\ NameIdle

SiblingQuery ==
    /\ runs < MaxRuns
    /\ \E o \in SiblingOptions : Ended("query", o, query(NewContext, o))

SiblingCommand ==
    /\ runs < MaxRuns
    /\ \E o \in SiblingOptions : Ended("command", o, command(NewContext, o))

NextSiblings == SiblingQuery \/ SiblingCommand

SpecSiblings == InitSiblings /\ [][NextSiblings]_vars

-----------------------------------------------------------------------------
(* normalizeOptions alone, applied to an identifier and then to its own result *)

MaxNameLength == 3
MaxNormalizations == 2

NameTokens == {"foo", "Foo", "Bar", " ", "-", "_"}
Identifiers == UNION {[1..n -> NameTokens] : n \in 1..MaxNameLength}

InitName ==
    /\ names \in {<<n>> : n \in Identifiers}
    /\ GeneratorIdle /\ PatcherIdle /\ PathIdle

NormalizeOptions ==
    /\ Len(names) <= MaxNormalizations
    /\ names' = Append(names,
                   normalizeOptions([name |-> names[Len(names)], path |-> <<>>,
                                     skipImport |-> FALSE, flat |-> FALSE]).name)
    /\ UNCHANGED <<tree, last, runs, texts, patchIn, pathIn, pathOut>>

NextName == NormalizeOptions

SpecName == InitName /\ [][NextName]_vars

-----------------------------------------------------------------------------
(* What the claims speak of *)

Generators == {"query", "command"}
Updaters == {"updateModuleFile", "helpers_updateModuleFile"}

\* the tree operations of the last invocation that write
Writes(log) == SelectSeq(log, LAMBDA e : e.op \in {"create", "overwrite"})

\* the module file the last update located, and its text before and after
LocatedModule == findModuleFile(last.before, last.args.path)
ModuleBefore == ReadText(last.before, LocatedModule)
ModuleAfter == ReadText(tree, LocatedModule)
WroteModule ==
    \E i \in 1..Len(last.log) :
        last.log[i] = [op |-> "overwrite", path |-> Segments(LocatedModule)]

\* C1: when the identifier is missing or empty, the generator ends in a fatal
\* error before any file-tree write: nothing was created, nothing modified.
C1_MissingNameWritesNothing ==
    (last.op \in Generators /\ last.args.name = <<>>) =>
        /\ last.err \in {<<"Failed to generate query", "Query name is required">>,
                         <<"Failed to generate command", "Command name is required">>}
        /\ Writes(last.log) = <<>>
        /\ tree = last.before

C1_Witness ==
    /\ last.op = "command" /\ last.args.name = <<>> /\ ~last.args.skipImport
    /\ last.err # <<>>
    /\ Exists(tree, SrcModulePath)

\* C2: updateModuleFile run twice in succession with the same arguments: the
\* second run leaves every file as the first run left it.
C2_UpdateIdempotent ==
    (/\ last.op \in Updaters
     /\ last.prev.op = last.op
     /\ last.prev.args = last.args) => tree = last.before

\* the first run rewrote the module file, the second run found it and ended
\* without an error
C2_Witness ==
    /\ last.op = "updateModuleFile"
    /\ last.prev.op = last.op /\ last.prev.args = last.args
    /\ last.prev.changed
    /\ last.err = <<>>
    /\ Includes(ModuleAfter, ProviderEntry(last.args.name))

\* the number of places where p occurs in s
Occurrences(s, p) == Cardinality({i \in 1..Len(s) : OccursAt(s, p, i)})

\* `import { <Classified N>Handler } from`: the start of an import line for N
HandlerImportStart(name) ==
    <<"import", " ", "{", " ">> \o handlerClassName(name) \o <<" ", "}", " ", "from">>

\* the text between the brackets of the providers array, <<>> when there is none
ProvidersOf(text) ==
    LET m == ProvidersMatch(text)
    IN  IF m.start = 0 THEN <<>> ELSE SubSeq(text, m.open + 1, m.close - 1)

\* the entries <Classified N>Handler of the array: the identifier itself, not
\* the end of a longer one
Registrations(providers, name) ==
    Cardinality({i \in 1..Len(providers) :
        /\ OccursAt(providers, handlerClassName(name), i)
        /\ (i = 1 \/ providers[i - 1] \notin LowerWords \cup UpperWords)})

\* C3: whenever the update writes the module file back for name N, the written
\* text has exactly one import line for <N>Handler and exactly one entry
\* <N>Handler inside the providers array.
C3_WrittenHasImportAndEntry ==
    (last.op \in Updaters /\ WroteModule) =>
        /\ Occurrences(ModuleAfter, HandlerImportStart(last.args.name)) = 1
        /\ Registrations(ProvidersOf(ModuleAfter), last.args.name) = 1

\* C4: when the located module file has no bracketed providers array, the update
\* ends in the "No providers array found" error and does not write the file.
\* (Stated for a file that holds some text: an empty file is reported as one
\* that could not be read.)
C4_NoProvidersArrayIsAnError ==
    (/\ last.op \in Updaters
     /\ LocatedModule # Null
     /\ ModuleBefore # <<>>
     /\ ~HasProvidersArray(ModuleBefore)) =>
        /\ last.err = <<"Failed to update module file", "No providers array found">>
        /\ tree = last.before

\* C6: when the providers array of the located module file already holds the
\* entry <N>Handler, the update leaves the file as it was.
C6_RegisteredLeavesFileAlone ==
    (/\ last.op \in Updaters
     /\ LocatedModule # Null
     /\ Registrations(ProvidersOf(ModuleBefore), last.args.name) >= 1) =>
        ModuleAfter = ModuleBefore

-----------------------------------------------------------------------------
(* The patcher's claims: the last call made on the text *)

Calls == Len(texts) - 1
LastOp == texts[Len(texts)].op
Before == texts[Len(texts) - 1].text
After == texts[Len(texts)].text

\* text.split("\n")
RECURSIVE Lines(_)
Lines(text) ==
    LET i == IndexOf(text, <<"\n">>)
    IN  IF i = 0 THEN <<text>>
        ELSE <<SubSeq(text, 1, i - 1)>> \o Lines(SubSeq(text, i + 1, Len(text)))

\* a is b with some elements left out
RECURSIVE IsSubsequence(_, _)
IsSubsequence(a, b) ==
    IF a = <<>> THEN TRUE
    ELSE IF b = <<>> THEN FALSE
    ELSE IF a[1] = b[1] THEN IsSubsequence(Tail(a), Tail(b))
    ELSE IsSubsequence(a, Tail(b))

\* the providers array opens its line and lists plain entries: a line break
\* follows the "[" and no other "[" stands before the closing "]", so that a
\* new entry line can be added without changing a line
ArrayOpensLine ==
    LET old == ProvidersOf(Before)
    IN  old # <<>> /\ old[1] = "\n" /\ ~Includes(old, <<"[">>)

\* C5: patching is purely additive: every line of the text before a patcher
\* call is still there after it, unchanged and in the same relative order.
\* (Stated for the calls that can keep every line: an array written on one
\* line cannot take a new entry line without that line changing.)
C5_EveryLineKept ==
    (Calls >= 1 /\ (LastOp = "addProviderEntry" => ArrayOpensLine)) =>
        IsSubsequence(Lines(Before), Lines(After))

WithoutWhitespace(s) == SelectSeq(s, LAMBDA x : x \notin Whitespace)
Commas(s) == Cardinality({i \in 1..Len(s) : s[i] = ","})
\* the commas that follow another comma with nothing but white space between
DoubleCommas(s) ==
    LET w == WithoutWhitespace(s)
    IN  Cardinality({i \in 2..Len(w) : w[i] = "," /\ w[i - 1] = ","})

\* the last call was a registration insertion that found the array and not the entry
Inserted ==
    /\ Calls >= 1 /\ LastOp = "addProviderEntry"
    /\ ProvidersMatch(Before).start # 0
    /\ ~Includes(ProvidersOf(Before), handlerClassName(patchIn.name))

\* what the patched array holds before the line of the new entry
NewEntryLine == <<"\n">> \o patchIn.providerEntry \o <<"\n", " ", " ">>
HeadOfPatched ==
    LET new == ProvidersOf(After)
    IN  SubSeq(new, 1, Len(new) - Len(NewEntryLine))

\* C7: registration insertion adds a separating comma after the last entry
\* exactly when the array holds an entry (anything but white space) and does
\* not already end with a comma; the patched array has no two consecutive
\* commas that the array did not have, and a comma stands between the last
\* old entry and the new one.
C7_OneSeparator ==
    Inserted =>
        LET old == WithoutWhitespace(ProvidersOf(Before))
            head == WithoutWhitespace(HeadOfPatched)
            needed == old # <<>> /\ old[Len(old)] # ","
        IN  /\ EndsWith(ProvidersOf(After), NewEntryLine)
            /\ head = (IF needed THEN old \o <<",">> ELSE old)
            /\ DoubleCommas(HeadOfPatched) = DoubleCommas(ProvidersOf(Before))
            /\ old # <<>> => head[Len(head)] = ","

\* a comma was added after an entry that had none
C7_Witness ==
    /\ Inserted
    /\ WithoutWhitespace(ProvidersOf(Before)) = <<"Bar", "Handler">>
    /\ Commas(HeadOfPatched) = 1

\* C8: with an import statement in the text, the new import line is inserted
\* right after the last import statement of the file and nothing else changes;
\* with none, the new import line becomes the first line.
C8_AfterLastImport ==
    (Calls >= 1 /\ LastOp = "addImportStatement") =>
        LET spans == ImportMatchSpans(Before, 1)
            e == spans[Len(spans)].end
        IN  IF spans # <<>>
            THEN After = SubSeq(Before, 1, e) \o <<"\n">> \o patchIn.importStatement
                         \o SubSeq(Before, e + 1, Len(Before))
            ELSE After = patchIn.importStatement \o <<"\n">> \o Before

\* C9: import insertion followed by registration insertion, applied twice with
\* the same import line, entry and name, gives what applying them once gives.
C9_TwoPassesAreOne ==
    (/\ Calls = 4
     /\ [i \in 1..4 |-> texts[i + 1].op] =
            <<"addImportStatement", "addProviderEntry",
              "addImportStatement", "addProviderEntry">>) =>
        texts[5].text = texts[3].text

-----------------------------------------------------------------------------
(* The path calculator's claims *)

\* a relative path resolved against a directory: ".." drops the last segment,
\* "." changes nothing, any other segment is appended
RECURSIVE Resolve(_, _)
Resolve(dir, parts) ==
    IF parts = <<>> THEN dir
    ELSE IF parts[1] = <<"..">>
    THEN Resolve(SubSeq(dir, 1, Len(dir) - 1), Tail(parts))
    ELSE IF parts[1] = <<".">> THEN Resolve(dir, Tail(parts))
    ELSE Resolve(Append(dir, parts[1]), Tail(parts))

\* the segments of the path are names: none of them is the parent segment
PlainSegments(path) == \A i \in 1..Len(Segments(path)) : Segments(path)[i] # <<"..">>

\* C10 (as stated): the path getRelativePath(source, target) computes, resolved
\* against the source directory, is the target: its list of segments.
C10_RoundTrip ==
    pathOut # Null =>
        Resolve(Segments(pathIn.from), Segments(pathOut)) = Segments(pathIn.to)

\* C10 (amended): for every source directory and every target whose segments
\* are names (no parent segment among them), the path getRelativePath computes,
\* resolved against the source directory, is the target's list of segments.
C10_RoundTripOfPlainTarget ==
    (pathOut # Null /\ PlainSegments(pathIn.to)) =>
        Resolve(Segments(pathIn.from), Segments(pathOut)) = Segments(pathIn.to)

\* one level up from a/b and down again to a/a
C10_Witness ==
    /\ pathIn = [from |-> <<"a", "/", "b">>, to |-> <<"a", "/", "a">>]
    /\ pathOut = <<"..", "/", "a">>

\* the segments of the two arguments and the length of their common prefix
FromSegments == Segments(pathIn.from)
ToSegments == Segments(pathIn.to)
CommonPrefix ==
    LET m == Min(Len(FromSegments), Len(ToSegments))
    IN  CHOOSE k \in 0..m :
            /\ SubSeq(FromSegments, 1, k) = SubSeq(ToSegments, 1, k)
            /\ (k = m \/ FromSegments[k + 1] # ToSegments[k + 1])

\* one ".." for every source segment after the common prefix, then the target
\* segments after it, joined with "/"
UpsThenDown ==
    Join([i \in 1..(Len(FromSegments) - CommonPrefix) |-> <<"..">>]
         \o SubSeq(ToSegments, CommonPrefix + 1, Len(ToSegments)))

\* C11: the result of getRelativePath is one ".." for every source segment
\* after the common prefix followed by the target segments after it, joined
\* with "/", with "./" in front exactly when that text does not start with "../".
C11_UpsThenDown ==
    pathOut # Null =>
        pathOut = (IF StartsWith(UpsThenDown, <<"..", "/">>) THEN UpsThenDown
                   ELSE <<".", "/">> \o UpsThenDown)

\* from a/b/ to a/c/d: ../c/d
C11_Witness ==
    /\ pathIn = [from |-> <<"a", "/", "b", "/">>, to |-> <<"a", "/", "c", "/", "d">>]
    /\ pathOut = <<"..", "/", "c", "/", "d">>

\* the target lies directly in the source directory
TargetInSource ==
    /\ ToSegments # <<>>
    /\ SubSeq(ToSegments, 1, Len(ToSegments) - 1) = FromSegments

\* the last segment of the target, <<>> when it has none
Basename ==
    IF ToSegments = <<>> THEN <<>> ELSE ToSegments[Len(ToSegments)]

-----------------------------------------------------------------------------
(* The generators' claims: the files they create and the module they find *)

\* the last invocation was a generator given a name
GeneratorRan == last.op \in Generators /\ last.args.name # <<>>

\* the target directory D: src/ followed by the path option, src/ by default
TargetDirectory == Segments(<<"src", "/">> \o last.args.path)
ParentDirectory == SubSeq(TargetDirectory, 1, Len(TargetDirectory) - 1)

\* the two files of the layout, as lists of segments
ArtifactName == dasherize(last.args.name)
LayoutDirectory(sub) ==
    IF last.args.flat THEN TargetDirectory ELSE Append(TargetDirectory, <<sub>>)
ClassFile ==
    Append(LayoutDirectory("impl"), ArtifactName \o <<KindSuffix(last.op), ".ts">>)
HandlerFile ==
    Append(LayoutDirectory("handlers"), ArtifactName \o <<".handler", ".ts">>)

\* the paths handed to the tree operation op by the last invocation, in order
PathsOf(op) ==
    LET hits == SelectSeq(last.log, LAMBDA e : e.op = op)
    IN  [i \in 1..Len(hits) |-> hits[i].path]

\* the file is in the tree now, with the text it has there / as it was before
InTree(segs) == \E i \in 1..Len(tree) : tree[i].path = segs
WasInTree(segs) == \E i \in 1..Len(last.before) : last.before[i].path = segs
Kept(f) == \E i \in 1..Len(tree) : tree[i] = f
BothCreated ==
    /\ InTree(ClassFile) /\ ~WasInTree(ClassFile)
    /\ InTree(HandlerFile) /\ ~WasInTree(HandlerFile)

\* the locator was reached, and the files it can choose from: those directly in
\* the parent directory whose name ends in .module.ts, in the listing's order
LocatorRan == GeneratorRan /\ PathsOf("getDir") # <<>>
Candidates ==
    SelectSeq(last.before, LAMBDA f :
        /\ SubSeq(f.path, 1, Len(f.path) - 1) = ParentDirectory
        /\ EndsWith(f.path[Len(f.path)], <<".module.ts">>))

C14_NoModuleIsNoError ==
    (LocatorRan /\ Candidates = <<>>) =>
        /\ last.err = <<>>
        /\ BothCreated
        /\ \A i \in 1..Len(last.before) : Kept(last.before[i])

\* a module file elsewhere in the tree, none in the parent directory
C14_Witness ==
    /\ LocatorRan /\ Candidates = <<>>
    /\ last.before # <<>>
    /\ BothCreated

\* C15 (as stated): with more than one candidate in the parent directory both
\* files are created and the patch step is skipped: no candidate is modified.
C15_AmbiguousSkipsPatch ==
    (LocatorRan /\ Len(Candidates) > 1) =>
        /\ BothCreated
        /\ \A i \in 1..Len(Candidates) : Kept(Candidates[i])

\* C15 (amended): with more than one candidate in the parent directory both
\* files are created and the patch step is applied to the first candidate of
\* the listing alone: no other candidate is read or modified.
C15_AmbiguousPatchesFirst ==
    (LocatorRan /\ Len(Candidates) > 1) =>
        /\ BothCreated
        /\ PathsOf("read") = <<Candidates[1].path>>
        /\ \A i \in 2..Len(Candidates) : Kept(Candidates[i])

\* the first of two candidates was given the import and the entry
C15_Witness ==
    /\ LocatorRan /\ Len(Candidates) = 2
    /\ last.err = <<>>
    /\ Includes(ReadText(tree, Join(Candidates[1].path)),
                ProviderEntry(ArtifactName))

\* C16: the generator creates D/impl/<name>.<kind>.ts and
\* D/handlers/<name>.handler.ts, or D/<name>.<kind>.ts and D/<name>.handler.ts
\* when flat, and no other file; `create user` with the defaults gives
\* src/impl/create-user.command.ts and src/handlers/create-user.handler.ts.
C16_Layout ==
    GeneratorRan =>
        /\ PathsOf("create") \in {<<ClassFile>>, <<ClassFile, HandlerFile>>}
        /\ \A i \in 1..Len(tree) :
               WasInTree(tree[i].path) \/ tree[i].path \in {ClassFile, HandlerFile}
        /\ last.err = <<>> =>
               BothCreated /\ PathsOf("create") = <<ClassFile, HandlerFile>>
        /\ (last.op = "command" /\ last.args = [name |-> <<"create", " ", "user">>,
                path |-> <<>>, skipImport |-> FALSE, flat |-> FALSE]) =>
               /\ ClassFile = <<<<"src">>, <<"impl">>,
                                <<"create", "-", "user", ".command", ".ts">>>>
               /\ HandlerFile = <<<<"src">>, <<"handlers">>,
                                  <<"create", "-", "user", ".handler", ".ts">>>>

\* `create user` with the defaults: the two files of the structured layout
C16_Witness ==
    /\ last.op = "command" /\ last.err = <<>>
    /\ last.args.name = <<"create", " ", "user">> /\ last.args.path = <<>>
    /\ InTree(<<<<"src">>, <<"impl">>, <<"create", "-", "user", ".command", ".ts">>>>)
    /\ InTree(<<<<"src">>, <<"handlers">>, <<"create", "-", "user", ".handler", ".ts">>>>)

\* the import path written in the handler file: the text between the quotes
HandlerImport ==
    LET text == tree[CHOOSE i \in 1..Len(tree) : tree[i].path = HandlerFile].text
        q == IndexOf(text, <<"'">>)
        rest == SubSeq(text, q + 1, Len(text))
    IN  SubSeq(rest, 1, IndexOf(rest, <<"'">>) - 1)

\* the path of the class file without its .ts extension
ClassFileNoExtension ==
    LET file == ClassFile[Len(ClassFile)]
    IN  [ClassFile EXCEPT ![Len(ClassFile)] = SubSeq(file, 1, Len(file) - 1)]

\* C17: in both layouts the import path written in the handler file, resolved
\* against the directory the handler file is created in, is the path of the
\* command/query file created with it, without its .ts extension.
C17_HandlerImportResolves ==
    (GeneratorRan /\ BothCreated) =>
        /\ HandlerImport = (IF last.args.flat THEN <<".", "/">>
                            ELSE <<"..", "/", "impl", "/">>)
                           \o ArtifactName \o <<KindSuffix(last.op)>>
        /\ Resolve(SubSeq(HandlerFile, 1, Len(HandlerFile) - 1),
                   Segments(HandlerImport)) = ClassFileNoExtension

\* a query of the structured layout: ../impl/create-foo.query from handlers/
C17_Witness ==
    /\ last.op = "query" /\ BothCreated /\ ~last.args.flat
    /\ HandlerImport = <<"..", "/", "impl", "/", "create", "-", "foo", ".query">>

\* the files the documentation shows for `create-user modules/features/users`
\* and `get-user modules/features/users`
DocumentedFiles(kindDirectory, name, suffix) ==
    LET base == <<<<"src">>, <<"modules">>, <<"features">>, <<"users">>,
                  <<kindDirectory>>>>
    IN  {base \o <<<<"impl">>, name \o <<suffix, ".ts">>>>,
         base \o <<<<"handlers">>, name \o <<".handler", ".ts">>>>}

\* C18: the command generator with name create-user and path
\* modules/features/users creates its two files under
\* src/modules/features/users/commands/, the query generator with name
\* get-user and the same path under src/modules/features/users/queries/.
C18_DocumentedLayout ==
    (GeneratorRan /\ last.err = <<>> /\ last.args.path = UsersPath) =>
        /\ (last.op = "command" /\ last.args.name = <<"create", "-", "user">>) =>
               \A f \in DocumentedFiles("commands", <<"create", "-", "user">>, ".command") :
                   InTree(f)
        /\ (last.op = "query" /\ last.args.name = <<"get", "-", "user">>) =>
               \A f \in DocumentedFiles("queries", <<"get", "-", "user">>, ".query") :
                   InTree(f)

\* the update of the module file failed in the last invocation
PatchFailed ==
    \E i \in 1..Len(last.err) : last.err[i] = "Failed to update module file"

\* C19: a failure of the patch phase reaches the caller as a failure of the
\* module-file update and not as a failure of the generation: the outermost
\* message is the update's.
C19_PatchFailureIsNotGeneration ==
    (GeneratorRan /\ PatchFailed) =>
        last.err[1] = "Failed to update module file"

\* C20: when the module file found is there but gives nothing to read, the patch
\* step raises an error, the module file stays as it was, and the two files
\* created before in the same invocation stay in the tree.
C20_UnreadableModule ==
    (LocatorRan /\ Candidates # <<>> /\ Candidates[1].text = <<>>) =>
        /\ PatchFailed
        /\ last.err[Len(last.err)] = "Could not read module file"
        /\ Kept(Candidates[1])
        /\ PathsOf("overwrite") = <<>>
        /\ BothCreated

\* src/app.module.ts is empty: the generation under src/users/ ends in the error
C20_Witness ==
    /\ LocatorRan
    /\ Candidates # <<>> /\ Candidates[1] = File(SrcModulePath, <<>>)
    /\ last.err # <<>>
    /\ BothCreated

-----------------------------------------------------------------------------
(* Two invocations in a row, and the order of the steps of one *)

\* the invocation before the last was a generator given the same name, target
\* directory and layout
PrevSameTarget ==
    /\ last.prev.op \in Generators /\ last.prev.args.name # <<>>
    /\ dasherize(last.prev.args.name) = ArtifactName
    /\ Segments(<<"src", "/">> \o last.prev.args.path) = TargetDirectory
    /\ last.prev.args.flat = last.args.flat

GenerateFailure ==
    IF last.op = "query" THEN "Failed to generate query" ELSE "Failed to generate command"

\* C21: the same generator invoked a second time with the same name, target
\* directory and layout fails because the file is there already; nothing is
\* skipped silently, nothing is written over: every file stays as it was.
C21_SecondInvocationFails ==
    (GeneratorRan /\ PrevSameTarget /\ last.prev.op = last.op) =>
        /\ last.err = <<GenerateFailure, "Path already exists">>
        /\ PathsOf("create") = <<ClassFile>>
        /\ WasInTree(ClassFile) /\ WasInTree(HandlerFile)
        /\ tree = last.before

\* the second of two equal query invocations
C21_Witness ==
    /\ last.op = "query" /\ GeneratorRan /\ PrevSameTarget /\ last.prev.op = "query"
    /\ last.err # <<>>
    /\ InTree(ClassFile) /\ InTree(HandlerFile)

\* the operations the last invocation made on the tree, in order
Ops == [i \in 1..Len(last.log) |-> last.log[i].op]
ModuleOps == {"getDir", "read", "overwrite"}

\* C22: the identifier is checked before any access to the tree; both files
\* are created before the module file is looked for, read or written; the
\* module file is written at most once; with skipImport the module file is
\* not looked for, read or written and the two created files are the only
\* change of the tree.
C22_PipelineOrder ==
    last.op \in Generators =>
        /\ last.args.name = <<>> => last.log = <<>>
        /\ \A i \in 1..Len(Ops) : Ops[i] \in ModuleOps =>
               /\ i > 2
               /\ SubSeq(Ops, 1, 2) = <<"create", "create">>
               /\ InTree(ClassFile) /\ InTree(HandlerFile)
        /\ \A i \in 1..Len(Ops) : Ops[i] = "create" => i <= 2
        /\ Len(PathsOf("overwrite")) <= 1
        /\ last.args.skipImport =>
               /\ \A i \in 1..Len(Ops) : Ops[i] \notin ModuleOps
               /\ \A i \in 1..Len(last.before) : Kept(last.before[i])
               /\ \A i \in 1..Len(tree) :
                      WasInTree(tree[i].path) \/ tree[i].path \in {ClassFile, HandlerFile}

\* with skipImport, next to a module file that would have been found
C22_Witness ==
    /\ GeneratorRan /\ last.args.skipImport /\ last.err = <<>>
    /\ Candidates # <<>>
    /\ BothCreated

-----------------------------------------------------------------------------
(* The canonical name *)

\* C23: the canonical name normalizeOptions computes for a non-empty identifier
\* is idempotent: normalizing the canonical name again gives the same name.
C23_CanonicalNameIdempotent ==
    \A i \in 3..Len(names) : names[i] = names[2]

\* fooBar becomes foo-bar, and foo-bar stays foo-bar
C23_Witness ==
    names = <<<<"foo", "Bar">>, <<"foo", "-", "bar">>, <<"foo", "-", "bar">>>>

-----------------------------------------------------------------------------
(* The module file a generator wrote *)

\* the module file the last invocation wrote, and its text in the tree now
WrittenModule == PathsOf("overwrite")[1]
WrittenText ==
    tree[CHOOSE i \in 1..Len(tree) : tree[i].path = WrittenModule].text

\* the path between the quotes of the import line of <N>Handler in the text
InsertedImportPath ==
    LET start == HandlerImportStart(ArtifactName) \o <<" ", "'">>
        rest == SubSeq(WrittenText, IndexOf(WrittenText, start) + Len(start),
                       Len(WrittenText))
    IN  SubSeq(rest, 1, IndexOf(rest, <<"'">>) - 1)

\* the path of the handler file without its .ts extension
HandlerFileNoExtension ==
    LET file == HandlerFile[Len(HandlerFile)]
    IN  [HandlerFile EXCEPT ![Len(HandlerFile)] = SubSeq(file, 1, Len(file) - 1)]

\* C24: whenever a generator writes the module file, the path of the import
\* line it inserted, resolved against the directory of the module file, is
\* the path of the handler file it created, without .ts: in both layouts, and
\* with the module file at the root of the tree.
C24_ImportPointsAtHandler ==
    (GeneratorRan /\ PathsOf("overwrite") # <<>>) =>
        /\ Includes(WrittenText, HandlerImportStart(ArtifactName) \o <<" ", "'">>)
        /\ Resolve(SubSeq(WrittenModule, 1, Len(WrittenModule) - 1),
                   Segments(InsertedImportPath)) = HandlerFileNoExtension
        /\ InTree(HandlerFile)

\* the default directory src/: app.module.ts at the root imports from ./src/handlers/
C24_Witness ==
    /\ GeneratorRan /\ PathsOf("overwrite") = <<<<<<"app", ".module.ts">>>>>>
    /\ ~last.args.flat
    /\ InsertedImportPath = <<".", "/", "src", "/", "handlers", "/">>
                             \o ArtifactName \o <<".handler">>

-----------------------------------------------------------------------------
(* The module-file update: what counts as registered, as an array, as read *)

\* <N>Handler stands in the providers array only as the end of a longer
\* identifier, and the text has no import of <N>Handler
OnlyLongerIdentifier ==
    /\ LocatedModule # Null
    /\ Includes(ProvidersOf(ModuleBefore), handlerClassName(last.args.name))
    /\ Registrations(ProvidersOf(ModuleBefore), last.args.name) = 0
    /\ Occurrences(ModuleBefore, HandlerImportStart(last.args.name)) = 0

\* C25: when the providers array holds <N>Handler only as part of a longer
\* identifier (CreateFooHandler when FooHandler is registered), the update
\* still adds the import and the entry of <N>Handler.
C25_LongerIdentifierDoesNotSuppress ==
    (last.op \in Updaters /\ OnlyLongerIdentifier) =>
        /\ WroteModule
        /\ Occurrences(ModuleAfter, HandlerImportStart(last.args.name)) = 1
        /\ Registrations(ProvidersOf(ModuleAfter), last.args.name) = 1

\* C26: what the guard of updateModuleFile accepts, the pattern of
\* addProviderEntry matches too: when the guarded update writes the file, the
\* text it was given has an array the inserter finds and the text written has
\* the entry in it.
C26_GuardAndInserterAgree ==
    (last.op = "updateModuleFile" /\ WroteModule) =>
        /\ ProvidersMatch(ModuleBefore).start # 0
        /\ Includes(ProvidersOf(ModuleAfter), handlerClassName(last.args.name))

\* C29: a module file that is there with nothing in it is taken as unreadable:
\* the update ends in "Could not read module file", wrapped as "Failed to
\* update module file", and does not write the file.
C29_EmptyFileIsUnreadable ==
    (last.op \in Updaters /\ LocatedModule # Null /\ ModuleBefore = <<>>) =>
        /\ last.err = <<"Failed to update module file", "Could not read module file">>
        /\ ~WroteModule
        /\ tree = last.before

\* the update of module-updater.ts on the empty src/app.module.ts
C29_Witness ==
    /\ last.op = "updateModuleFile"
    /\ last.before = <<File(SrcModulePath, <<>>)>>
    /\ last.err # <<>>
    /\ tree = last.before

-----------------------------------------------------------------------------
(* The same handler class name from two sibling directories *)

\* the invocation before the last generated the same name in another directory
\* under the same parent, the module file found holds its import and entry, and
\* nothing of that name was generated in the target directory yet
PrevInSibling ==
    /\ last.prev.op \in Generators
    /\ ~WasInTree(ClassFile) /\ ~WasInTree(HandlerFile)
    /\ dasherize(last.prev.args.name) = ArtifactName
    /\ LET prevDirectory == Segments(<<"src", "/">> \o last.prev.args.path)
       IN  /\ prevDirectory # TargetDirectory
           /\ SubSeq(prevDirectory, 1, Len(prevDirectory) - 1) = ParentDirectory
    /\ Candidates # <<>>
    /\ Occurrences(Candidates[1].text, HandlerImportStart(ArtifactName)) = 1
    /\ Registrations(ProvidersOf(Candidates[1].text), ArtifactName) = 1

\* C27: the second of two generations of one handler class name in sibling
\* directories of one module file creates its two files and leaves the module
\* file as it was: one import and one entry of <N>Handler, those of the first.
C27_SiblingLeavesModuleAlone ==
    (GeneratorRan /\ PrevInSibling) =>
        /\ last.err = <<>>
        /\ BothCreated
        /\ PathsOf("overwrite") = <<>>
        /\ Kept(Candidates[1])

\* command foo under users/commands, then query foo under users/queries
C27_Witness ==
    /\ last.op = "query" /\ last.prev.op = "command"
    /\ last.args.path = <<"users", "/", "queries">>
    /\ last.prev.args.path = <<"users", "/", "commands">>
    /\ GeneratorRan /\ PrevInSibling
    /\ BothCreated

-----------------------------------------------------------------------------
(* What one invocation leaves behind *)

\* C28: the query generator run after the command generator with the same
\* name, target directory and layout creates its <name>.query.ts and then
\* fails on the <name>.handler.ts that is there; the query file stays in the
\* tree, the handler file and every other file is as it was, and the module
\* file was not looked for, read or written.
C28_HandlerCollisionKeepsQueryFile ==
    (/\ last.op = "query" /\ GeneratorRan
     /\ PrevSameTarget /\ last.prev.op = "command"
     /\ ~WasInTree(ClassFile)) =>
        /\ last.err = <<"Failed to generate query", "Path already exists">>
        /\ Ops = <<"create", "create">>
        /\ PathsOf("create") = <<ClassFile, HandlerFile>>
        /\ InTree(ClassFile)
        /\ WasInTree(HandlerFile)
        /\ \A i \in 1..Len(last.before) : Kept(last.before[i])
        /\ Len(tree) = Len(last.before) + 1

\* command then query of create-foo under src/users/, next to src/app.module.ts
C28_Witness ==
    /\ last.op = "query" /\ GeneratorRan /\ PrevSameTarget /\ last.prev.op = "command"
    /\ ~last.args.skipImport /\ Candidates # <<>>
    /\ last.err # <<>>
    /\ InTree(ClassFile) /\ ~WasInTree(ClassFile)

\* C30: a generator invocation that ends without an error creates exactly two
\* new files and changes at most one file that was there, the module file the
\* locator returned; every other file is as it was.
C30_Frame ==
    (GeneratorRan /\ last.err = <<>>) =>
        /\ BothCreated /\ ClassFile # HandlerFile
        /\ Len(tree) = Len(last.before) + 2
        /\ \A i \in 1..Len(last.before) :
               \/ Kept(last.before[i])
               \/ /\ LocatorRan /\ Candidates # <<>>
                  /\ last.before[i] = Candidates[1]
                  /\ InTree(last.before[i].path)

\* the module file was rewritten, next to another candidate and to the files
\* of an earlier generation
C30_Witness ==
    /\ GeneratorRan /\ last.err = <<>>
    /\ last.prev.op \in Generators /\ last.prev.changed
    /\ Len(Candidates) > 1 /\ ~Kept(Candidates[1])
    /\ BothCreated

====
